---- MODULE Spec2Model ----
(***************************************************************************)
(* kvsheet.js: a key-value store kept in two columns of a Google Sheet.    *)
(* Model of src/storage/kvGoogleStore.js: parseSheetId, KeyValueStore      *)
(* (load, save) and the Proxy wrapper, against a remote sheet that other   *)
(* parties may edit.                                                       *)
(*                                                                         *)
(* The remote service is not part of the repository.  What the model       *)
(* takes of it is what the code itself relies on: values.get leaves out    *)
(* trailing empty cells of a row and trailing empty rows (hence            *)
(* `row[1] ?? ''` and `response.data.values || []`), values.clear empties  *)
(* every cell of the range, values.update writes the rows from the         *)
(* range's top-left cell and rejects data wider than the range, and a      *)
(* range whose columns are given in reverse ("C1:B") is the range between  *)
(* the two columns.  A request that fails is not applied.                  *)
(*                                                                         *)
(* Keys and cell texts are drawn from strings that are not integer-like,   *)
(* so Object.entries keeps insertion order.  The sheet name only adds a    *)
(* prefix to the range and is left out.                                    *)
(***************************************************************************)
EXTENDS Integers, Sequences, FiniteSets, TLC

VARIABLES
  sheet,        \* the remote sheet: <<column, row>> -> text ("" is an empty cell)
  edits,        \* number of edits made by other parties so far
  startX,       \* startX[a]: this._startX, a column
  startY,       \* startY[a]: this._startY, a row
  data,         \* data[a]: this._data, a sequence of <<key, value>> in insertion order
  own,          \* own[a][m]: what property m (load, save) of the instance resolves to
  pc,           \* pc[a]: where adapter a is
  wrapped,      \* wrapped[a]: createKeyValueStore has returned the proxy of a
  response,     \* response[a]: response.data of the read in flight
  rows,         \* rows[a]: the local `rows` of save()
  last,         \* last[a]: outcome of the call that has just ended ("none" once the caller goes on)
  reqs,         \* reqs[a]: the requests the current (or last) save() has issued
  extTouched,   \* extTouched[a]: another party edited the sheet since a's last clear
  peerTouched,  \* peerTouched[a]: another adapter wrote the sheet since a's last clear
  dropped,      \* dropped[a]: a's save() cleared a key its mapping lacks, or its load() discarded an entry the rows lack
  expect,       \* expect[a]: the rows of the completed, undisturbed save() that a's read saw
  writer,       \* the adapter whose update was applied last (0: none yet)
  input,        \* the argument of parseSheetId
  output,       \* what parseSheetId returned
  parsed        \* parseSheetId has returned

vars == <<sheet, edits, startX, startY, data, own, pc, wrapped, response, rows,
          last, reqs, extTouched, peerTouched, dropped, expect, writer,
          input, output, parsed>>

storeVars == <<sheet, edits, startX, startY, data, own, pc, wrapped, response, rows,
               last, reqs, extTouched, peerTouched, dropped, expect, writer>>

parseVars == <<input, output, parsed>>

\* ---------------------------------------------------------------- bounds
NumCols == 4
MaxRow == 2
MaxEdits == 1
MaxParts == 4

\* Column B, the end of the range in `${startX}${startY}:B`.
ColB == 2

Cols == 1..NumCols
SheetRows == 1..MaxRow
Adapters == {1, 2}
\* startX is "A", "B" or "C".
StartCols == {ColB - 1, ColB, ColB + 1}
StartRows == {1, 2}
\* What another party types into a cell.
CellStrs == {"", "a", "__proto__"}
\* Property names assigned through the proxy, and the values assigned.
MethodNames == {"load", "save"}
EntryNames == {"a", ""}
PropValues == {"", "b"}
\* The value assigned to a method name.
ShadowValues == {"b"}

\* The prototype's method, as the value a property resolves to.
METHOD == "<method>"
\* The JS value undefined.
UNDEFINED == "<undefined>"

Min(x, y) == IF x <= y THEN x ELSE y
Max(x, y) == IF x >= y THEN x ELSE y

\* ------------------------------------------------ a plain JS object ({})
ObjKeys(o) == {o[i][1] : i \in 1..Len(o)}
ObjHas(o, k) == k \in ObjKeys(o)
ObjIndex(o, k) == CHOOSE i \in 1..Len(o) : o[i][1] = k
\* o[k]
ObjGet(o, k) == IF ObjHas(o, k) THEN o[ObjIndex(o, k)][2] ELSE UNDEFINED

\* o[k] = v with the existing key's value left as it was.
ObjSetKeepFirst(o, k, v) ==
  IF k = "__proto__" \/ ObjHas(o, k) THEN o ELSE Append(o, <<k, v>>)

\* o[k] = v.  "__proto__" is the accessor of Object.prototype: assigning a
\* string to it does nothing and creates no own property.
ObjSet(o, k, v) ==
  IF k = "__proto__" THEN o
  ELSE IF ObjHas(o, k) THEN [o EXCEPT ![ObjIndex(o, k)] = <<k, v>>]
  ELSE Append(o, <<k, v>>)

\* Object.entries(o) with every entry but the last.
EntriesDropLast(o) == [i \in 1..(Len(o) - 1) |-> <<o[i][1], o[i][2]>>]

\* Object.entries(o) with each pair turned round: [value, key]
EntriesSwapped(o) == [i \in 1..Len(o) |-> <<o[i][2], o[i][1]>>]

\* Object.entries(o): the own entries as [key, value] rows, in insertion order.
Entries(o) == [i \in 1..Len(o) |-> <<o[i][1], o[i][2]>>]

\* ------------------------------------------------------- the remote sheet
\* `${startX}${startY}:B`
RangeOf(a) == [c1 |-> startX[a], r1 |-> startY[a], c2 |-> ColB]

RangeLo(R) == Min(R.c1, R.c2)
RangeHi(R) == Max(R.c1, R.c2)
RangeWidth(R) == RangeHi(R) - RangeLo(R) + 1
RangeCols(R) == RangeLo(R)..RangeHi(R)
RangeRows(R) == R.r1..MaxRow
InRange(R, c, r) == c \in RangeCols(R) /\ r \in RangeRows(R)

RECURSIVE Trim(_)
Trim(s) == IF s # <<>> /\ s[Len(s)] = "" THEN Trim(SubSeq(s, 1, Len(s) - 1)) ELSE s

RowCells(sh, R, r) == [j \in 1..RangeWidth(R) |-> sh[<<RangeLo(R) + j - 1, r>>]]
UsedRows(sh, R) == {r \in RangeRows(R) : \E c \in RangeCols(R) : sh[<<c, r>>] # ""}
LastUsedRow(sh, R) == CHOOSE r \in UsedRows(sh, R) : \A q \in UsedRows(sh, R) : q <= r

\* spreadsheets.values.get: response.data
GetValues(sh, R) ==
  IF UsedRows(sh, R) = {} THEN [hasValues |-> FALSE, values |-> <<>>]
  ELSE [hasValues |-> TRUE,
        values |-> [i \in 1..(LastUsedRow(sh, R) - R.r1 + 1) |->
                      Trim(RowCells(sh, R, R.r1 + i - 1))]]

\* spreadsheets.values.clear
ClearValues(sh, R) ==
  [p \in DOMAIN sh |-> IF InRange(R, p[1], p[2]) THEN "" ELSE sh[p]]

\* spreadsheets.values.update accepts the rows
UpdateFits(R, rs) ==
  /\ Len(rs) <= MaxRow - R.r1 + 1
  /\ \A i \in 1..Len(rs) : Len(rs[i]) <= RangeWidth(R)

\* spreadsheets.values.update, valueInputOption RAW
UpdateValues(sh, R, rs) ==
  [p \in DOMAIN sh |->
     LET i == p[2] - R.r1 + 1
         j == p[1] - RangeLo(R) + 1
     IN IF i \in 1..Len(rs) /\ j \in 1..Len(rs[i]) THEN rs[i][j] ELSE sh[p]]

\* ------------------------------------------------------------ load's loop
\* const key = row[0]  (a missing cell is undefined, and the property key "undefined")
RowKey(row) == IF Len(row) >= 1 THEN row[1] ELSE "undefined"

\* const value = row[1] without the default
RowValueNoDefault(row) == IF Len(row) >= 2 THEN row[2] ELSE UNDEFINED

\* const value = row[1] ?? ''
RowValue(row) == IF Len(row) >= 2 THEN row[2] ELSE ""

\* response.data.values || [], taking the first row for a header
ResponseRowsSkipHeader(resp) ==
  IF resp.hasValues /\ resp.values # <<>> THEN Tail(resp.values) ELSE <<>>

\* response.data.values || []
ResponseRows(resp) == IF resp.hasValues THEN resp.values ELSE <<>>

\* for (const row of rows) { this._data[key] = value }, onto the object o
RECURSIVE LoadRows(_, _)
LoadRows(o, rs) ==
  IF rs = <<>> THEN o
  ELSE LoadRows(ObjSet(o, RowKey(Head(rs)), RowValue(Head(rs))), Tail(rs))

\* load() that keeps the mapping it had: the rows are added to the old object
LoadedDataMerge(a) == LoadRows(data[a], ResponseRows(response[a]))

\* this._data = {}; then the loop
LoadedData(a) == LoadRows(<<>>, ResponseRows(response[a]))

\* ------------------------------------------------------------- the proxy
\* `prop in target`: the methods of the prototype (the own fields and the
\* members of Object.prototype are not among the names used here)
IsMember(a, prop) == prop \in MethodNames

\* get trap: Reflect.get(target, prop) for a member, else target._data[prop]
ProxyGet(a, prop) == IF IsMember(a, prop) THEN own[a][prop] ELSE ObjGet(data[a], prop)

\* Rows the mapping of a may hold so that save() fits the modelled sheet.
Capacity(a) == MaxRow - startY[a] + 1


\* ---------------------------------------------------------------- actions
\* What is kept of a call (its response, its rows, its requests, whether the
\* sheet was written by someone else since its clear) is kept until the
\* caller's next step.
NoResponse == [hasValues |-> FALSE, values |-> <<>>]
NoExpect == [valid |-> FALSE, rows |-> <<>>]

Watching(a) ==
  pc[a] = "save_cleared" \/ (pc[a] = "idle" /\ last[a] \in {"save_ok", "save_write_err"})
TouchPeers(a) == [b \in Adapters |-> IF b # a /\ Watching(b) THEN TRUE ELSE peerTouched[b]]

ForgetLoad(a) ==
  /\ response' = [response EXCEPT ![a] = NoResponse]
  /\ expect' = [expect EXCEPT ![a] = NoExpect]

ForgetSave(a) ==
  /\ rows' = [rows EXCEPT ![a] = <<>>]
  /\ reqs' = [reqs EXCEPT ![a] = <<>>]
  /\ extTouched' = [extTouched EXCEPT ![a] = FALSE]
  /\ peerTouched' = [peerTouched EXCEPT ![a] = FALSE]

\* The columns other parties edit: those of the stores' range.
TableCols == UNION {RangeCols(RangeOf(a)) : a \in Adapters}

\* Another party edits one cell of the sheet.
ExternalEdit(c, r, s) ==
  /\ edits < MaxEdits
  /\ c \in TableCols
  /\ sheet[<<c, r>>] # s
  /\ sheet' = [sheet EXCEPT ![<<c, r>>] = s]
  /\ edits' = edits + 1
  /\ extTouched' = [a \in Adapters |-> Watching(a) \/ extTouched[a]]
  /\ UNCHANGED <<startX, startY, data, own, pc, wrapped, response, rows, last, reqs,
                 peerTouched, dropped, expect, writer, parseVars>>

\* load() can be called: by createKeyValueStore on the new store, or through
\* the proxy when `load` still resolves to the method.
CanLoad(a) ==
  \/ pc[a] = "new"
  \/ pc[a] = "idle" /\ wrapped[a] /\ ProxyGet(a, "load") = METHOD

\* The adapters whose completed save() nobody has written over since.
SavedBy(a) ==
  {b \in Adapters : /\ last[b] = "save_ok"
                    /\ pc[b] = "idle"
                    /\ ~extTouched[b]
                    /\ ~peerTouched[b]
                    /\ RangeOf(b) = RangeOf(a)}

\* load() up to the answer of spreadsheets.values.get
LoadGet(a) ==
  /\ CanLoad(a)
  /\ response' = [response EXCEPT ![a] = GetValues(sheet, RangeOf(a))]
  /\ pc' = [pc EXCEPT ![a] = "load_wait"]
  /\ expect' = [expect EXCEPT ![a] =
                  IF SavedBy(a) = {} THEN NoExpect
                  ELSE [valid |-> TRUE, rows |-> rows[CHOOSE b \in SavedBy(a) : TRUE]]]
  /\ last' = [last EXCEPT ![a] = "none"]
  /\ dropped' = [dropped EXCEPT ![a] = FALSE]
  /\ ForgetSave(a)
  /\ UNCHANGED <<sheet, edits, startX, startY, data, own, wrapped, writer, parseVars>>

\* spreadsheets.values.get rejects: load() rejects before touching _data; a
\* store whose first load fails is never returned by createKeyValueStore.
LoadFail(a) ==
  /\ CanLoad(a)
  /\ last' = [last EXCEPT ![a] = "load_err"]
  /\ pc' = [pc EXCEPT ![a] = IF wrapped[a] THEN "idle" ELSE "dead"]
  /\ dropped' = [dropped EXCEPT ![a] = FALSE]
  /\ ForgetLoad(a)
  /\ ForgetSave(a)
  /\ UNCHANGED <<sheet, edits, startX, startY, data, own, wrapped, writer, parseVars>>

\* load() after the await: the mapping is rebuilt from the rows
LoadReturn(a) ==
  /\ pc[a] = "load_wait"
  /\ data' = [data EXCEPT ![a] = LoadedData(a)]
  /\ pc' = [pc EXCEPT ![a] = "idle"]
  /\ wrapped' = [wrapped EXCEPT ![a] = TRUE]
  /\ last' = [last EXCEPT ![a] = "load_ok"]
  /\ dropped' = [dropped EXCEPT ![a] =
                   \E i \in 1..Len(data[a]) :
                     \A j \in 1..Len(ResponseRows(response[a])) :
                       ResponseRows(response[a])[j] = <<>>
                         \/ ResponseRows(response[a])[j][1] # data[a][i][1]]
  /\ UNCHANGED <<sheet, edits, startX, startY, own, response, rows, reqs,
                 extTouched, peerTouched, expect, writer, parseVars>>

\* set trap, member: Reflect.set(target, prop, value, receiver) defines an own
\* property of the instance, which shadows the prototype's method
ProxySetMember(a, prop, v) ==
  /\ own' = [own EXCEPT ![a][prop] = v]
  /\ UNCHANGED data

\* set trap, anything else: target._data[prop] = value
ProxySetEntry(a, prop, v) ==
  /\ data' = [data EXCEPT ![a] = ObjSet(data[a], prop, v)]
  /\ UNCHANGED own

\* store[prop] = v, by a caller that awaits each call before going on
ProxySet(a, prop, v) ==
  /\ wrapped[a]
  /\ pc[a] = "idle"
  /\ ObjHas(data[a], prop) \/ Len(data[a]) < Capacity(a) \/ IsMember(a, prop)
  /\ IF IsMember(a, prop) THEN ProxySetMember(a, prop, v) ELSE ProxySetEntry(a, prop, v)
  /\ last' = [last EXCEPT ![a] = "none"]
  /\ dropped' = [dropped EXCEPT ![a] = FALSE]
  /\ ForgetLoad(a)
  /\ ForgetSave(a)
  /\ UNCHANGED <<sheet, edits, startX, startY, pc, wrapped, writer, parseVars>>

\* store.load() or store.save() when the property no longer holds a function
CallThrows(a, m) ==
  /\ wrapped[a]
  /\ pc[a] = "idle"
  /\ ProxyGet(a, m) # METHOD
  /\ last' = [last EXCEPT ![a] = "type_error"]
  /\ dropped' = [dropped EXCEPT ![a] = FALSE]
  /\ ForgetLoad(a)
  /\ ForgetSave(a)
  /\ UNCHANGED <<sheet, edits, startX, startY, data, own, pc, wrapped, writer, parseVars>>

CanSave(a) == wrapped[a] /\ pc[a] = "idle" /\ ProxyGet(a, "save") = METHOD

ClearRequest(a) == [op |-> "clear", range |-> RangeOf(a)]
UpdateRequest(a) == [op |-> "update", range |-> RangeOf(a)]

\* save() up to the answer of spreadsheets.values.clear
SaveClear(a) ==
  /\ CanSave(a)
  /\ rows' = [rows EXCEPT ![a] = Entries(data[a])]
  /\ sheet' = ClearValues(sheet, RangeOf(a))
  /\ reqs' = [reqs EXCEPT ![a] = <<ClearRequest(a)>>]
  /\ pc' = [pc EXCEPT ![a] = "save_cleared"]
  /\ last' = [last EXCEPT ![a] = "none"]
  /\ extTouched' = [extTouched EXCEPT ![a] = FALSE]
  /\ peerTouched' = [TouchPeers(a) EXCEPT ![a] = FALSE]
  /\ dropped' = [dropped EXCEPT ![a] =
                   \E r \in UsedRows(sheet, RangeOf(a)) :
                     /\ sheet[<<RangeLo(RangeOf(a)), r>>] # ""
                     /\ ~ObjHas(data[a], sheet[<<RangeLo(RangeOf(a)), r>>])]
  /\ ForgetLoad(a)
  /\ UNCHANGED <<edits, startX, startY, data, own, wrapped, writer, parseVars>>

\* where save() is after a clear request that was rejected, if it went on
GoesOnAfterClearFailure == "save_cleared"

\* where save() is after a clear request that was rejected: it has thrown
AfterClearFailure == "idle"

\* spreadsheets.values.clear rejects: save() rejects, nothing is written
SaveClearFail(a) ==
  /\ CanSave(a)
  /\ rows' = [rows EXCEPT ![a] = Entries(data[a])]
  /\ reqs' = [reqs EXCEPT ![a] = <<ClearRequest(a)>>]
  /\ pc' = [pc EXCEPT ![a] = AfterClearFailure]
  /\ last' = [last EXCEPT ![a] = "save_clear_err"]
  /\ extTouched' = [extTouched EXCEPT ![a] = FALSE]
  /\ peerTouched' = [peerTouched EXCEPT ![a] = FALSE]
  /\ dropped' = [dropped EXCEPT ![a] = FALSE]
  /\ ForgetLoad(a)
  /\ UNCHANGED <<sheet, edits, startX, startY, data, own, wrapped, writer, parseVars>>

\* save() after the clear: spreadsheets.values.update is applied
SaveUpdate(a) ==
  /\ pc[a] = "save_cleared"
  /\ UpdateFits(RangeOf(a), rows[a])
  /\ sheet' = UpdateValues(sheet, RangeOf(a), rows[a])
  /\ reqs' = [reqs EXCEPT ![a] = Append(reqs[a], UpdateRequest(a))]
  /\ pc' = [pc EXCEPT ![a] = "idle"]
  /\ last' = [last EXCEPT ![a] = "save_ok"]
  /\ peerTouched' = TouchPeers(a)
  /\ writer' = a
  /\ UNCHANGED <<edits, startX, startY, data, own, wrapped, response, rows,
                 extTouched, dropped, expect, parseVars>>

\* spreadsheets.values.update rejects (always, when the rows are wider than
\* the range): save() rejects, the clear stays applied
SaveUpdateFail(a) ==
  /\ pc[a] = "save_cleared"
  /\ reqs' = [reqs EXCEPT ![a] = Append(reqs[a], UpdateRequest(a))]
  /\ pc' = [pc EXCEPT ![a] = "idle"]
  /\ last' = [last EXCEPT ![a] = "save_write_err"]
  /\ UNCHANGED <<sheet, edits, startX, startY, data, own, wrapped, response, rows,
                 extTouched, peerTouched, dropped, expect, writer, parseVars>>

\* ------------------------------------------------------------ parseSheetId
\* A string is a sequence of one-character strings.
Lower == {"a", "b", "c", "d", "e", "f", "g", "h", "i", "j", "k", "l", "m",
          "n", "o", "p", "q", "r", "s", "t", "u", "v", "w", "x", "y", "z"}
Upper == {"A", "B", "C", "D", "E", "F", "G", "H", "I", "J", "K", "L", "M",
          "N", "O", "P", "Q", "R", "S", "T", "U", "V", "W", "X", "Y", "Z"}
Digit == {"0", "1", "2", "3", "4", "5", "6", "7", "8", "9"}
\* [a-zA-Z0-9-_]
IdChars == Lower \cup Upper \cup Digit \cup {"-", "_"}
\* \/spreadsheets\/d\/
Literal == <<"/", "s", "p", "r", "e", "a", "d", "s", "h", "e", "e", "t", "s", "/", "d", "/">>

\* The literal part of the regex matches s from position i on, from its k-th
\* character.
RECURSIVE LiteralFrom(_, _, _)
LiteralFrom(s, i, k) ==
  IF k > Len(Literal) THEN TRUE
  ELSE IF i > Len(s) \/ s[i] # Literal[k] THEN FALSE
  ELSE LiteralFrom(s, i + 1, k + 1)

\* ([a-zA-Z0-9-_]+), greedy: the characters of the class from position j on
RECURSIVE IdRun(_, _)
IdRun(s, j) ==
  IF j <= Len(s) /\ s[j] \in IdChars THEN <<s[j]>> \o IdRun(s, j + 1) ELSE <<>>

NoMatch == [found |-> FALSE, whole |-> <<>>, group |-> <<>>]

\* sheetIdOrUrl.match(regex): the leftmost position where the regex matches
RECURSIVE Match(_, _)
Match(s, i) ==
  IF i > Len(s) THEN NoMatch
  ELSE IF LiteralFrom(s, i, 1) /\ IdRun(s, i + Len(Literal)) # <<>>
       THEN [found |-> TRUE,
             whole |-> Literal \o IdRun(s, i + Len(Literal)),
             group |-> IdRun(s, i + Len(Literal))]
  ELSE Match(s, i + 1)

\* parseSheetId returning match[0]
parseSheetIdWholeMatch(s) ==
  LET match == Match(s, 1)
  IN IF match.found /\ match.group # <<>> THEN match.whole ELSE s

parseSheetId(s) ==
  LET match == Match(s, 1)
  IN IF match.found /\ match.group # <<>> THEN match.group ELSE s

\* The pieces the arguments are put together from.
Pieces ==
  { Literal,
    <<"1", "a", "B">>,
    <<"-", "_">>,
    <<"/", "e", "d", "i", "t", "#", "g", "i", "d", "=", "0">>,
    <<"h", "t", "t", "p", "s", ":", "/", "/", "d", "o", "c", "s", ".", "g", "o", "o", "g", "l", "e", ".", "c", "o", "m">>,
    <<"/", "d", "/">>,
    <<"/", "s", "p", "r", "e", "a", "d", "s", "h", "e", "e", "t", "s", "/", "d">> }

RECURSIVE Concat(_)
Concat(ps) == IF ps = <<>> THEN <<>> ELSE Head(ps) \o Concat(Tail(ps))

Inputs == {Concat(ps) : ps \in UNION {[1..n -> Pieces] : n \in 1..MaxParts}}

\* sheetId = parseSheetId(sheetId)
Parse ==
  /\ ~parsed
  /\ output' = parseSheetId(input)
  /\ parsed' = TRUE
  /\ UNCHANGED <<input, storeVars>>

\* ------------------------------------------------------------------ Init
EmptySheet == [p \in Cols \X SheetRows |-> ""]

\* The stores are made by createKeyValueStore from the same options (or the
\* same environment): the state is the one right after `new KeyValueStore`.
InitStores(xs, ys) ==
  /\ sheet = EmptySheet
  /\ edits = 0
  /\ \E x \in xs : startX = [a \in Adapters |-> x]
  /\ \E y \in ys : startY = [a \in Adapters |-> y]
  /\ data = [a \in Adapters |-> <<>>]
  /\ own = [a \in Adapters |-> [m \in MethodNames |-> METHOD]]
  /\ pc = [a \in Adapters |-> "new"]
  /\ wrapped = [a \in Adapters |-> FALSE]
  /\ response = [a \in Adapters |-> NoResponse]
  /\ rows = [a \in Adapters |-> <<>>]
  /\ last = [a \in Adapters |-> "none"]
  /\ reqs = [a \in Adapters |-> <<>>]
  /\ extTouched = [a \in Adapters |-> FALSE]
  /\ peerTouched = [a \in Adapters |-> FALSE]
  /\ dropped = [a \in Adapters |-> FALSE]
  /\ expect = [a \in Adapters |-> NoExpect]
  /\ writer = 0

NoParse ==
  /\ input = <<>>
  /\ output = <<>>
  /\ parsed = FALSE

\* One store, any configuration.
Init == InitStores(StartCols, StartRows) /\ NoParse

Edits == \E c \in Cols, r \in SheetRows, s \in CellStrs : ExternalEdit(c, r, s)

\* One store used through its proxy for the mapping, the sheet edited by others.
Next ==
  \/ Edits
  \/ \E prop \in EntryNames, v \in PropValues : ProxySet(1, prop, v)
  \/ LoadGet(1)
  \/ LoadFail(1)
  \/ LoadReturn(1)
  \/ SaveClear(1)
  \/ SaveClearFail(1)
  \/ SaveUpdate(1)
  \/ SaveUpdateFail(1)

Spec == Init /\ [][Next]_vars

\* The same, with assignments to the names `load` and `save` as well.
NextProxy ==
  \/ Next
  \/ \E prop \in MethodNames, v \in ShadowValues : ProxySet(1, prop, v)
  \/ \E m \in MethodNames : CallThrows(1, m)

SpecProxy == Init /\ [][NextProxy]_vars

\* Two stores on the same range, "A1:B", each made by createKeyValueStore
\* (its one load), then assigned to and saved any number of times.
InitConc == InitStores({ColB - 1}, {1}) /\ NoParse

NextConc ==
  \/ \E a \in Adapters, prop \in EntryNames, v \in PropValues : ProxySet(a, prop, v)
  \/ \E a \in Adapters : pc[a] = "new" /\ LoadGet(a)
  \/ \E a \in Adapters : LoadReturn(a)
  \/ \E a \in Adapters : SaveClear(a)
  \/ \E a \in Adapters : SaveUpdate(a)

SpecConc == InitConc /\ [][NextConc]_vars

\* parseSheetId on every argument made of at most MaxParts pieces.
InitParse ==
  /\ InitStores({ColB - 1}, {1})
  /\ input \in Inputs
  /\ output = <<>>
  /\ parsed = FALSE

NextParse == Parse

SpecParse == InitParse /\ [][NextParse]_vars

\* ================================================================ claims
\* The range of a holds exactly the entries of mapping o, one row each from
\* the range's first row down, key in the first column and value in the
\* second, and every other cell of the range is empty.
RangeIsMapping(sh, a, o) ==
  \A c \in RangeCols(RangeOf(a)), r \in RangeRows(RangeOf(a)) :
    LET i == r - startY[a] + 1 IN
      sh[<<c, r>>] = IF i > Len(o) THEN ""
                     ELSE IF c = RangeLo(RangeOf(a)) THEN o[i][1]
                     ELSE IF c = RangeLo(RangeOf(a)) + 1 THEN o[i][2]
                     ELSE ""

RangeIsEmpty(sh, a) ==
  \A c \in RangeCols(RangeOf(a)), r \in RangeRows(RangeOf(a)) : sh[<<c, r>>] = ""

\* save() of a has just completed and nobody else has written the sheet
\* since its clear.
SavedAlone(a) ==
  pc[a] = "idle" /\ last[a] = "save_ok" /\ ~extTouched[a] /\ ~peerTouched[a]

\* C1: after a save() that completes without error and with no other writer,
\* the range holds exactly the rows [key, value] of the mapping and nothing
\* else: whatever the range held before is gone.
C1_Overwrite == \A a \in Adapters : SavedAlone(a) => RangeIsMapping(sheet, a, data[a])

\* A save() of a non-empty mapping has completed over a range that held a key
\* the mapping lacks.
C1_Witness ==
  /\ SavedAlone(1)
  /\ dropped[1]
  /\ Len(data[1]) >= 1
  /\ RangeIsMapping(sheet, 1, data[1])

\* C3: assignments through the proxy never overwrite the methods: load and
\* save still resolve to the adapter's methods.
C3_MethodsKept ==
  \A a \in Adapters : wrapped[a] => ProxyGet(a, "load") = METHOD /\ ProxyGet(a, "save") = METHOD

\* C5: the table is the two columns from startX on: after a save() (no other
\* writer) entry i of the mapping has its key in column startX and its value
\* in the column after it, in row startY + i - 1.
C5_TableAtStartX ==
  \A a \in Adapters :
    SavedAlone(a) =>
      \A i \in 1..Len(data[a]) :
        /\ sheet[<<startX[a], startY[a] + i - 1>>] = data[a][i][1]
        /\ sheet[<<startX[a] + 1, startY[a] + i - 1>>] = data[a][i][2]

\* C9: save() issues one clear, and only after it has succeeded one update of
\* the same range; a failed clear ends save() with the error and no update; a
\* failed update ends save() with the error, the range left empty (no other
\* writer), and the mapping as it was.
C9_ClearThenWrite ==
  \A a \in Adapters :
    /\ pc[a] = "save_cleared" =>
         /\ reqs[a] = <<ClearRequest(a)>>
         /\ (~extTouched[a] /\ ~peerTouched[a]) => RangeIsEmpty(sheet, a)
    /\ last[a] = "save_ok" => reqs[a] = <<ClearRequest(a), UpdateRequest(a)>>
    /\ last[a] = "save_clear_err" => pc[a] = "idle" /\ reqs[a] = <<ClearRequest(a)>>
    /\ last[a] = "save_write_err" =>
         /\ pc[a] = "idle"
         /\ reqs[a] = <<ClearRequest(a), UpdateRequest(a)>>
         /\ Entries(data[a]) = rows[a]
         /\ (~extTouched[a] /\ ~peerTouched[a]) => RangeIsEmpty(sheet, a)
    /\ Len(reqs[a]) <= 2

\* The update of a non-empty mapping that fits the range has failed after the
\* clear emptied a range that held a key.
C9_Witness ==
  /\ last[1] = "save_write_err"
  /\ UpdateFits(RangeOf(1), rows[1])
  /\ Len(rows[1]) >= 1
  /\ dropped[1]
  /\ ~extTouched[1]
  /\ RangeIsEmpty(sheet, 1)

\* The rows the read of a returned.
Returned(a) == ResponseRows(response[a])
HasFirst(row) == Len(row) >= 1
HasSecond(row) == Len(row) >= 2
SecondOrEmpty(row) == IF HasSecond(row) THEN row[2] ELSE ""
FirstCells(rs) == {rs[j][1] : j \in {i \in 1..Len(rs) : HasFirst(rs[i])}}
LastWithFirst(rs, k) ==
  CHOOSE j \in 1..Len(rs) :
    /\ HasFirst(rs[j]) /\ rs[j][1] = k
    /\ \A i \in (j + 1)..Len(rs) : ~(HasFirst(rs[i]) /\ rs[i][1] = k)
\* The property name a row is stored under: its first cell, or "undefined"
\* when it has none.
NameOf(row) == IF HasFirst(row) THEN row[1] ELSE "undefined"
StoredNames(rs) == {NameOf(rs[j]) : j \in 1..Len(rs)} \ {"__proto__"}
LastNamed(rs, k) ==
  CHOOSE j \in 1..Len(rs) :
    /\ NameOf(rs[j]) = k
    /\ \A i \in (j + 1)..Len(rs) : NameOf(rs[i]) # k

\* The range of a has a row with k in its first column and v in its second.
RowInRange(sh, a, k, v) ==
  \E r \in RangeRows(RangeOf(a)) :
    /\ sh[<<RangeLo(RangeOf(a)), r>>] = k
    /\ sh[<<RangeLo(RangeOf(a)) + 1, r>>] = v

\* C4 (as an action property and an invariant): assigning v to a name that is
\* no member of the adapter stores name -> v in the mapping, the next read of
\* the name through the proxy gives v, only an assignment or a load changes
\* the mapping, and a save() writes one row [name, value] per entry.
C4_AccessorFallback ==
  /\ [][\A a \in Adapters, n \in EntryNames, v \in PropValues :
          ProxySet(a, n, v) =>
            /\ ObjHas(data'[a], n)
            /\ ObjGet(data'[a], n) = v
            /\ ProxyGet(a, n)' = v]_vars
  /\ [][\A a \in Adapters :
          data'[a] # data[a] =>
            \/ LoadReturn(a)
            \/ \E n \in EntryNames, v \in PropValues : ProxySet(a, n, v)]_vars
  /\ [](\A a \in Adapters :
          SavedAlone(a) =>
            \A i \in 1..Len(data[a]) : RowInRange(sheet, a, data[a][i][1], data[a][i][2]))

\* Nobody but the store has ever written the sheet, the store holds a -> "b"
\* (so by assignment), reads it back, and its save() has written the row.
C4_Witness ==
  /\ edits = 0
  /\ SavedAlone(1)
  /\ ProxyGet(1, "a") = "b"
  /\ RowInRange(sheet, 1, "a", "b")

\* C7, as claimed: after a load() the keys of the mapping are exactly the
\* first cells of the returned rows, each mapped to the second cell ("" when
\* absent) of the last returned row with that first cell.
C7_KeysAreFirstCells ==
  \A a \in Adapters :
    last[a] = "load_ok" =>
      /\ ObjKeys(data[a]) = FirstCells(Returned(a))
      /\ \A k \in FirstCells(Returned(a)) :
           ObjGet(data[a], k) = SecondOrEmpty(Returned(a)[LastWithFirst(Returned(a), k)])

\* C7, amended: after a load() the keys of the mapping are exactly the first
\* cells of the returned rows, with "undefined" for a row that has no first
\* cell and without "__proto__"; each is mapped to the second cell ("" when
\* absent) of the last returned row stored under that key.  Nothing else of
\* the mapping from before the load survives.
C7_LoadReplaces ==
  \A a \in Adapters :
    last[a] = "load_ok" =>
      /\ ObjKeys(data[a]) = StoredNames(Returned(a))
      /\ \A k \in StoredNames(Returned(a)) :
           ObjGet(data[a], k) = SecondOrEmpty(Returned(a)[LastNamed(Returned(a), k)])

\* A load() has discarded an entry the rows lack and stored one they hold.
C7_Witness ==
  /\ last[1] = "load_ok"
  /\ dropped[1]
  /\ ObjHas(data[1], "a")

\* C8, as claimed: after a load() every returned row with a first cell k and
\* no second cell has k mapped to "", and every value is a defined string.
C8_EveryBareRowEmpty ==
  \A a \in Adapters :
    last[a] = "load_ok" =>
      /\ \A j \in 1..Len(Returned(a)) :
           Len(Returned(a)[j]) = 1 =>
             ObjHas(data[a], Returned(a)[j][1]) /\ ObjGet(data[a], Returned(a)[j][1]) = ""
      /\ \A i \in 1..Len(data[a]) : data[a][i][2] # UNDEFINED

\* C8, amended: after a load() every returned row with a first cell k other
\* than "__proto__" and no second cell, which no later returned row with the
\* same first cell and a second cell follows, has k mapped to ""; and every
\* value is a defined string.
C8_MissingValueDefault ==
  \A a \in Adapters :
    last[a] = "load_ok" =>
      /\ \A j \in 1..Len(Returned(a)) :
           (/\ Len(Returned(a)[j]) = 1
            /\ Returned(a)[j][1] # "__proto__"
            /\ \A i \in (j + 1)..Len(Returned(a)) :
                 ~(HasSecond(Returned(a)[i]) /\ Returned(a)[i][1] = Returned(a)[j][1]))
             => ObjHas(data[a], Returned(a)[j][1]) /\ ObjGet(data[a], Returned(a)[j][1]) = ""
      /\ \A i \in 1..Len(data[a]) : data[a][i][2] # UNDEFINED

\* A load() of a row ["a"] with no second cell.
C8_Witness ==
  /\ last[1] = "load_ok"
  /\ \E j \in 1..Len(Returned(1)) : Returned(1)[j] = <<"a">>
  /\ ObjGet(data[1], "a") = ""

\* Mapping o has exactly the entries rs.
SameMapping(o, rs) ==
  /\ ObjKeys(o) = {rs[i][1] : i \in 1..Len(rs)}
  /\ \A i \in 1..Len(rs) : ObjGet(o, rs[i][1]) = rs[i][2]

\* C2, as claimed: a load() by a fresh adapter that reads the range after a
\* completed save() of mapping M, nobody having written in between, yields a
\* mapping equal to M.
C2_RoundTrip ==
  \A b \in Adapters :
    (last[b] = "load_ok" /\ expect[b].valid) => SameMapping(data[b], expect[b].rows)

\* C2, amended: the same, for every M that has no entry with both an empty
\* key and an empty value.
C2_RoundTripNoBlankRow ==
  \A b \in Adapters :
    (/\ last[b] = "load_ok"
     /\ expect[b].valid
     /\ \A i \in 1..Len(expect[b].rows) : expect[b].rows[i] # <<"", "">>)
      => SameMapping(data[b], expect[b].rows)

\* The second store is made after the first has saved two entries, and loads them.
C2_Witness ==
  /\ last[2] = "load_ok"
  /\ expect[2].valid
  /\ Len(expect[2].rows) = 2
  /\ \A i \in 1..2 : expect[2].rows[i] # <<"", "">>
  /\ SameMapping(data[2], expect[2].rows)

Other(a) == CHOOSE b \in Adapters : b # a
BothSaved == \A a \in Adapters : pc[a] = "idle" /\ last[a] = "save_ok" /\ ~extTouched[a]
RowIs(sh, a, i, row) ==
  /\ sh[<<RangeLo(RangeOf(a)), startY[a] + i - 1>>] = row[1]
  /\ sh[<<RangeLo(RangeOf(a)) + 1, startY[a] + i - 1>>] = row[2]

\* C10, as claimed: once both saves have completed the range holds exactly
\* the mapping of the adapter whose update was applied last.
C10_LastSaveWins == BothSaved => RangeIsMapping(sheet, writer, data[writer])

\* C10, amended: once both saves have completed, the first rows of the range
\* are the entries of the mapping whose update was applied last; the range
\* holds nothing else unless the other adapter wrote between the last
\* writer's clear and update, and then the rows below are those the other
\* mapping has there (empty where it has none).
C10_LastWriterOnTop ==
  BothSaved =>
    LET w == writer
        p == Other(writer)
    IN /\ \A i \in 1..Len(data[w]) : RowIs(sheet, w, i, data[w][i])
       /\ ~peerTouched[w] => RangeIsMapping(sheet, w, data[w])
       /\ peerTouched[w] =>
            \A i \in (Len(data[w]) + 1)..(MaxRow - startY[w] + 1) :
              RowIs(sheet, w, i, IF i <= Len(data[p]) THEN data[p][i] ELSE <<"", "">>)

\* Both saves have completed, the other adapter's update landed between the
\* last writer's clear and update, and the other mapping is the longer one.
C10_Witness ==
  /\ BothSaved
  /\ peerTouched[writer]
  /\ Len(data[writer]) >= 1
  /\ Len(data[Other(writer)]) > Len(data[writer])

\* The segment /spreadsheets/d/<id> with an id of n characters, as long as it
\* can be, stands at position i of s.
SegmentAt(s, i, n) ==
  /\ n >= 1
  /\ i + Len(Literal) + n - 1 <= Len(s)
  /\ SubSeq(s, i, i + Len(Literal) - 1) = Literal
  /\ \A j \in (i + Len(Literal))..(i + Len(Literal) + n - 1) : s[j] \in IdChars
  /\ i + Len(Literal) + n <= Len(s) => s[i + Len(Literal) + n] \notin IdChars
Segments(s) == {p \in (1..Len(s)) \X (1..Len(s)) : SegmentAt(s, p[1], p[2])}

\* C6: parseSheetId returns the <id> of the first segment /spreadsheets/d/<id>
\* of its argument, and the argument unchanged when it has no such segment.
C6_ParseSheetId ==
  parsed =>
    IF Segments(input) = {} THEN output = input
    ELSE \E p \in Segments(input) :
           /\ \A q \in Segments(input) : p[1] <= q[1]
           /\ output = SubSeq(input, p[1] + Len(Literal), p[1] + Len(Literal) + p[2] - 1)

\* The argument /spreadsheets/d/1aB/edit#gid=0 has been parsed to 1aB.
C6_Witness ==
  /\ parsed
  /\ input = Literal \o <<"1", "a", "B">> \o
               <<"/", "e", "d", "i", "t", "#", "g", "i", "d", "=", "0">>
  /\ output = <<"1", "a", "B">>

====
